---- MODULE Spec2Model ----
(***************************************************************************)
(* The video-automation pipeline endpoint (POST /api/pipeline) and the     *)
(* page that calls it.                                                     *)
(*                                                                         *)
(*  - payloadSchema, POST           : the route handler                    *)
(*  - runAutomationPipeline         : the orchestrator (@/lib/pipeline),   *)
(*                                    imported by the route handler        *)
(*  - Home / handleSubmit           : the page (form, timeline, result)    *)
(*                                                                         *)
(* A JSON value is a record tagged by its type in field t.                 *)
(***************************************************************************)
EXTENDS Integers, Sequences, FiniteSets, TLC

\* ------------------------------------------------------------------ bounds
\* Number of POST invocations that may be in progress at once.
NumReqs == 2
\* Longest text a user or a client types into topic / targetAudience /
\* contentGoals.
MaxTextLen == 3

Reqs == 1..NumReqs

\* ------------------------------------------------------------- JSON values
Undefined == [t |-> "undefined"]
Null == [t |-> "null"]
JStr(s) == [t |-> "string", s |-> s]
\* The number whole + tenths/10 (non-negative; one decimal digit is enough to
\* tell integers from non-integers).
JNum(whole, tenths) == [t |-> "number", whole |-> whole, tenths |-> tenths]
JArr(items) == [t |-> "array", items |-> items]
\* A request body that is not JSON at all.
Malformed == [t |-> "malformed"]
\* The i-th character of a string.
Char(s, i) == SubSeq(s, i, i)

IsString(v) == v.t = "string"
IsNumber(v) == v.t = "number"
IsArray(v) == v.t = "array"
IsInteger(v) == v.tenths = 0
\* v >= k and v <= k for a JSON number v and an integer k.
NumGeq(v, k) == v.whole >= k
NumLeq(v, k) == v.whole < k \/ (v.whole = k /\ v.tenths = 0)

\* ------------------------------------------------------------ payloadSchema
MinTextLen == 3
MinKeywordLen == 1
MinDuration == 30
MaxDuration == 300

\* z.string().min(n)
StringMin(v, n) == IsString(v) /\ Len(v.s) >= n
\* z.string().optional()
OptionalString(v) == v = Undefined \/ IsString(v)
\* z.array(z.string().min(1)).optional()
KeywordsOk(v) ==
    \/ v = Undefined
    \/ /\ IsArray(v)
       /\ \A i \in 1..Len(v.items) : StringMin(v.items[i], MinKeywordLen)
\* z.number().int().min(30).max(300).optional(), with the off-by-one a
\* strict comparison would make
DurationOk_Strict(v) ==
    \/ v = Undefined
    \/ /\ IsNumber(v)
       /\ IsInteger(v)
       /\ NumGeq(v, MinDuration)
       /\ v.whole < MaxDuration
\* z.number().int().min(30).max(300).optional()
DurationOk(v) ==
    \/ v = Undefined
    \/ /\ IsNumber(v)
       /\ IsInteger(v)
       /\ NumGeq(v, MinDuration)
       /\ NumLeq(v, MaxDuration)

\* payloadSchema.parse(body) does not throw.
payloadSchema(body) ==
    /\ body.t = "object"
    /\ StringMin(body.topic, MinTextLen)
    /\ StringMin(body.targetAudience, MinTextLen)
    /\ StringMin(body.contentGoals, MinTextLen)
    /\ OptionalString(body.tone)
    /\ KeywordsOk(body.keywords)
    /\ OptionalString(body.callToAction)
    /\ DurationOk(body.durationSeconds)

\* The request body as request.json() returns it.
JObject(topic, audience, goals, tone, keywords, cta, duration) ==
    [t |-> "object", topic |-> topic, targetAudience |-> audience,
     contentGoals |-> goals, tone |-> tone, keywords |-> keywords,
     callToAction |-> cta, durationSeconds |-> duration]

\* ---------------------------------------------------------------- the page
\* String.prototype.split(",")
RECURSIVE SplitComma(_)
SplitComma(s) ==
    IF \E i \in 1..Len(s) : Char(s, i) = ","
    THEN LET i == CHOOSE j \in 1..Len(s) :
                      /\ Char(s, j) = ","
                      /\ \A k \in 1..(j - 1) : Char(s, k) # ","
         IN  <<SubSeq(s, 1, i - 1)>> \o SplitComma(SubSeq(s, i + 1, Len(s)))
    ELSE <<s>>

\* String.prototype.trim()
RECURSIVE Trim(_)
Trim(s) ==
    IF s = "" THEN s
    ELSE IF Char(s, 1) = " " THEN Trim(SubSeq(s, 2, Len(s)))
    ELSE IF Char(s, Len(s)) = " " THEN Trim(SubSeq(s, 1, Len(s) - 1))
    ELSE s

\* .filter(Boolean) on an array of strings: the empty string is falsy.
RECURSIVE FilterBoolean(_)
FilterBoolean(a) ==
    IF a = <<>> THEN <<>>
    ELSE IF Head(a) = "" THEN FilterBoolean(Tail(a))
    ELSE <<Head(a)>> \o FilterBoolean(Tail(a))

\* form.keywords.split(",").map((keyword) => keyword.trim()).filter(Boolean)
KeywordList(s) ==
    LET parts == SplitComma(s)
    IN  FilterBoolean([i \in 1..Len(parts) |-> Trim(parts[i])])

initialForm ==
    [topic |-> "AI automation for video creators",
     targetAudience |-> "Busy YouTubers and content marketers",
     contentGoals |-> "Educate viewers on automating their video workflow",
     tone |-> "Energetic and insightful",
     keywords |-> "automation, AI tools, YouTube growth",
     callToAction |-> "Subscribe for weekly automation playbooks",
     durationSeconds |-> JNum(120, 0)]

\* The body handleSubmit passes to JSON.stringify.
FormBody(f) ==
    LET kw == KeywordList(f.keywords)
    IN  JObject(JStr(f.topic), JStr(f.targetAudience), JStr(f.contentGoals),
                JStr(f.tone), JArr([i \in 1..Len(kw) |-> JStr(kw[i])]),
                JStr(f.callToAction), f.durationSeconds)

\* The number input's min and max attributes.
InputMin == 30
InputMax == 300

\* <input required>: the value is missing when it is the empty string.
Required(s) == s # ""
\* <input type="number" min={30} max={300}>, a controlled input showing
\* form.durationSeconds: no underflow, no overflow, and no step mismatch (the
\* default step is 1, counted from min).
NumberInputValid(v) ==
    /\ IsInteger(v)
    /\ NumGeq(v, InputMin)
    /\ NumLeq(v, InputMax)

\* The browser's constraint validation lets the form fire its submit event.
FormAllowsSubmit(f) ==
    /\ Required(f.topic)
    /\ Required(f.targetAudience)
    /\ Required(f.contentGoals)
    /\ NumberInputValid(f.durationSeconds)

\* -------------------------------------------------------------------- state
VARIABLES
    \* Home: the useState cells, and the request handleSubmit is awaiting
    \* (0 when it awaits none).
    form, status, result, loading, error, pageReq,
    \* POST, per invocation: where it is, the raw request body, the parsed
    \* brief, its statusUpdates array, and the response it produced.
    rpc, rbody, brief, statusUpdates, response,
    \* runAutomationPipeline, per run: where it is, the number of stages that
    \* completed, the events it handed to onStatus, the stages it invoked.
    ppc, pstage, emitted, started

pageVars == <<form, status, result, loading, error, pageReq>>
postVars == <<rpc, rbody, brief, statusUpdates, response>>
pipelineVars == <<ppc, pstage, emitted, started>>
vars == <<form, status, result, loading, error, pageReq,
          rpc, rbody, brief, statusUpdates, response,
          ppc, pstage, emitted, started>>

\* ----------------------------------------------------------------- responses
JTrue == [t |-> "true"]
JFalse == [t |-> "false"]
StatusOk == 200
StatusError == 500
\* The status the framework answers with when the handler throws.
StatusUnhandled == 500

NoBody ==
    [ok |-> Undefined, result |-> Undefined, error |-> Undefined,
     statusUpdates |-> Undefined]
NoResponse == [kind |-> "none", status |-> 0, body |-> NoBody]
\* The handler threw: the framework answers, and the body is not JSON.
UnhandledResponse == [kind |-> "text", status |-> StatusUnhandled, body |-> NoBody]
\* response.ok
ResponseOk(resp) == resp.status \in 200..299

\* ------------------------------------------------- runAutomationPipeline
StageNames == <<"Script", "Prompt", "Render", "Publish">>
NumStages == Len(StageNames)
StatusEvent(r, k, detail) ==
    [stage |-> StageNames[k], detail |-> detail, run |-> r]
\* The StageFailure stage k's adapter failure becomes: an Error naming the stage.
StageFailure(k) == [isError |-> TRUE, message |-> JStr(StageNames[k])]
\* The aggregate of the outputs of the first n stages of run r.
PipelineResult(r, n) ==
    [t |-> "result", run |-> r, outputs |-> SubSeq(StageNames, 1, n)]

\* ------------------------------------------------------------------- POST
\* onStatus, with every push going to the first invocation's array
onStatus_Shared(r, ev) ==
    [statusUpdates EXCEPT ![1] = Append(@, ev)]
\* onStatus, keeping only the latest event
onStatus_Latest(r, ev) ==
    [statusUpdates EXCEPT ![r] = <<ev>>]
\* onStatus, with unshift for push
onStatus_Unshift(r, ev) ==
    [statusUpdates EXCEPT ![r] = <<ev>> \o @]
\* onStatus: (status) => statusUpdates.push(status)
onStatus(r, ev) ==
    [statusUpdates EXCEPT ![r] = Append(@, ev)]

\* The catch block's message, with the instanceof test inverted
CatchMessage_Inverted(err) ==
    IF err.isError THEN JStr("Unknown pipeline failure") ELSE err.message
\* error instanceof Error ? error.message : "Unknown pipeline failure"
CatchMessage(err) ==
    IF err.isError THEN err.message ELSE JStr("Unknown pipeline failure")

\* return NextResponse.json({ ok: true, result, statusUpdates })
SuccessResponse(r, res) ==
    [kind |-> "json", status |-> StatusOk,
     body |-> [ok |-> JTrue, result |-> res, error |-> Undefined,
               statusUpdates |-> JArr(statusUpdates[r])]]

\* The catch block's response, also carrying what the run had produced
FailureResponse_Partial(r, err) ==
    [kind |-> "json", status |-> StatusError,
     body |-> [ok |-> JFalse, result |-> PipelineResult(r, pstage[r]),
               error |-> CatchMessage(err),
               statusUpdates |-> JArr(statusUpdates[r])]]
\* return NextResponse.json({ ok: false, error: message, statusUpdates },
\*                          { status: 500 })
FailureResponse(r, err) ==
    [kind |-> "json", status |-> StatusError,
     body |-> [ok |-> JFalse, result |-> Undefined,
               error |-> CatchMessage(err),
               statusUpdates |-> JArr(statusUpdates[r])]]

Init ==
    /\ form = initialForm
    /\ status = <<>>
    /\ result = Null
    /\ loading = FALSE
    /\ error = Null
    /\ pageReq = 0
    /\ rpc = [r \in Reqs |-> "free"]
    /\ rbody = [r \in Reqs |-> Undefined]
    /\ brief = [r \in Reqs |-> Undefined]
    /\ statusUpdates = [r \in Reqs |-> <<>>]
    /\ response = [r \in Reqs |-> NoResponse]
    /\ ppc = [r \in Reqs |-> "idle"]
    /\ pstage = [r \in Reqs |-> 0]
    /\ emitted = [r \in Reqs |-> <<>>]
    /\ started = [r \in Reqs |-> {}]

\* A request with this body reaches the endpoint: a new invocation of POST.
Deliver(r, body) ==
    /\ rpc[r] = "free"
    /\ rpc' = [rpc EXCEPT ![r] = "sent"]
    /\ rbody' = [rbody EXCEPT ![r] = body]
    /\ UNCHANGED <<brief, statusUpdates, response, pipelineVars>>

\* A client other than the page posts one of these bodies.
ClientPost(r, bodies) ==
    /\ rpc[r] = "free"
    /\ \E body \in bodies : Deliver(r, body)
    /\ UNCHANGED pageVars

\* POST up to the call of runAutomationPipeline: request.json() and
\* payloadSchema.parse(body) throw out of the handler (they are outside the
\* try block); otherwise the invocation gets its own empty statusUpdates and
\* the pipeline run begins.
PostParse(r) ==
    /\ rpc[r] = "sent"
    /\ IF rbody[r] = Malformed \/ ~payloadSchema(rbody[r])
       THEN /\ rpc' = [rpc EXCEPT ![r] = "responded"]
            /\ response' = [response EXCEPT ![r] = UnhandledResponse]
            /\ UNCHANGED <<brief, statusUpdates, ppc>>
       ELSE /\ rpc' = [rpc EXCEPT ![r] = "running"]
            /\ brief' = [brief EXCEPT ![r] = rbody[r]]
            /\ statusUpdates' = [statusUpdates EXCEPT ![r] = <<>>]
            /\ ppc' = [ppc EXCEPT ![r] = "ready"]
            /\ UNCHANGED response
    /\ UNCHANGED <<rbody, pstage, emitted, started, pageVars>>

\* The orchestrator announces the next stage and invokes its adapter.
StageStart(r) ==
    /\ rpc[r] = "running"
    /\ ppc[r] = "ready"
    /\ pstage[r] < NumStages
    /\ LET ev == StatusEvent(r, pstage[r] + 1, "start")
       IN  /\ emitted' = [emitted EXCEPT ![r] = Append(@, ev)]
           /\ statusUpdates' = onStatus(r, ev)
    /\ started' = [started EXCEPT ![r] = @ \cup {pstage[r] + 1}]
    /\ ppc' = [ppc EXCEPT ![r] = "awaiting"]
    /\ UNCHANGED <<rpc, rbody, brief, response, pstage, pageVars>>

\* The awaited adapter returns its output: the orchestrator reports the
\* stage's completion.
StageSucceed(r) ==
    /\ rpc[r] = "running"
    /\ ppc[r] = "awaiting"
    /\ LET ev == StatusEvent(r, pstage[r] + 1, "done")
       IN  /\ emitted' = [emitted EXCEPT ![r] = Append(@, ev)]
           /\ statusUpdates' = onStatus(r, ev)
    /\ pstage' = [pstage EXCEPT ![r] = @ + 1]
    /\ ppc' = [ppc EXCEPT ![r] = "ready"]
    /\ UNCHANGED <<rpc, rbody, brief, response, started, pageVars>>

\* POST's catch block: the awaited pipeline call threw err.
PostCatch(r, err) ==
    /\ rpc' = [rpc EXCEPT ![r] = "responded"]
    /\ response' = [response EXCEPT ![r] = FailureResponse(r, err)]

\* POST's return inside the try block: the awaited pipeline call returned res.
PostReturn(r, res) ==
    /\ rpc' = [rpc EXCEPT ![r] = "responded"]
    /\ response' = [response EXCEPT ![r] = SuccessResponse(r, res)]

\* The awaited adapter fails: the orchestrator throws the StageFailure, and
\* POST's catch block answers.
StageFail(r) ==
    /\ rpc[r] = "running"
    /\ ppc[r] = "awaiting"
    /\ ppc' = [ppc EXCEPT ![r] = "failed"]
    /\ PostCatch(r, StageFailure(pstage[r] + 1))
    /\ UNCHANGED <<rbody, brief, statusUpdates, pstage, emitted, started,
                   pageVars>>

\* All four stages succeeded: the orchestrator returns the PipelineResult,
\* and POST answers with it.
PipelineReturn(r) ==
    /\ rpc[r] = "running"
    /\ ppc[r] = "ready"
    /\ pstage[r] = NumStages
    /\ ppc' = [ppc EXCEPT ![r] = "returned"]
    /\ PostReturn(r, PipelineResult(r, pstage[r]))
    /\ UNCHANGED <<rbody, brief, statusUpdates, pstage, emitted, started,
                   pageVars>>

\* The invocation is over and its locals are gone.
Release(r) ==
    /\ rpc' = [rpc EXCEPT ![r] = "free"]
    /\ rbody' = [rbody EXCEPT ![r] = Undefined]
    /\ brief' = [brief EXCEPT ![r] = Undefined]
    /\ statusUpdates' = [statusUpdates EXCEPT ![r] = <<>>]
    /\ response' = [response EXCEPT ![r] = NoResponse]
    /\ ppc' = [ppc EXCEPT ![r] = "idle"]
    /\ pstage' = [pstage EXCEPT ![r] = 0]
    /\ emitted' = [emitted EXCEPT ![r] = <<>>]
    /\ started' = [started EXCEPT ![r] = {}]

\* A client other than the page receives its response.
ClientReceive(r) ==
    /\ rpc[r] = "responded"
    /\ r # pageReq
    /\ Release(r)
    /\ UNCHANGED pageVars

\* ------------------------------------------------------------ handleSubmit
\* What the timeline holds once handleSubmit has started, were the reset of
\* the previous run's timeline forgotten
StatusOnSubmit_Kept == status
\* setStatus([])
StatusOnSubmit == <<>>

\* The timeline after the response, were it set only past the response.ok test
StatusAfterResponse_OkOnly(resp) ==
    IF ~ResponseOk(resp) THEN status
    ELSE IF resp.body.statusUpdates = Undefined THEN <<>>
    ELSE resp.body.statusUpdates.items
\* setStatus(data.statusUpdates ?? [])
StatusAfterResponse(resp) ==
    IF resp.body.statusUpdates = Undefined THEN <<>>
    ELSE resp.body.statusUpdates.items

\* new Error(data.error ?? "Pipeline failed").message
ErrorOfResponse(resp) ==
    IF resp.body.error = Undefined THEN JStr("Pipeline failed")
    ELSE resp.body.error

\* The form is submitted (the button is disabled while loading): handleSubmit
\* up to the await of fetch.
HandleSubmit(r) ==
    /\ ~loading
    /\ FormAllowsSubmit(form)
    /\ loading' = TRUE
    /\ status' = StatusOnSubmit
    /\ result' = Null
    /\ error' = Null
    /\ pageReq' = r
    /\ Deliver(r, FormBody(form))
    /\ UNCHANGED form

\* fetch resolves with the endpoint's response: the rest of handleSubmit.
HandleResponse ==
    /\ pageReq # 0
    /\ rpc[pageReq] = "responded"
    /\ LET resp == response[pageReq]
       IN  IF resp.kind # "json"
           THEN \* response.json() throws
                /\ error' = JStr("SyntaxError")
                /\ UNCHANGED <<status, result>>
           ELSE /\ status' = StatusAfterResponse(resp)
                /\ IF ~ResponseOk(resp)
                   THEN /\ error' = ErrorOfResponse(resp)
                        /\ UNCHANGED result
                   ELSE /\ result' = resp.body.result
                        /\ UNCHANGED error
    /\ loading' = FALSE
    /\ pageReq' = 0
    /\ Release(pageReq)
    /\ UNCHANGED form

\* Number(event.target.value): the empty input converts to 0.
EmptyInput == [t |-> "empty"]
NumberOf(raw) == IF raw = EmptyInput THEN JNum(0, 0) ELSE raw

\* The onChange handlers.
SetField(f, field, v) == [f EXCEPT ![field] = v]
SetTopic(v) ==
    /\ form' = SetField(form, "topic", v)
    /\ UNCHANGED <<status, result, loading, error, pageReq, postVars,
                   pipelineVars>>
SetTargetAudience(v) ==
    /\ form' = SetField(form, "targetAudience", v)
    /\ UNCHANGED <<status, result, loading, error, pageReq, postVars,
                   pipelineVars>>
SetContentGoals(v) ==
    /\ form' = SetField(form, "contentGoals", v)
    /\ UNCHANGED <<status, result, loading, error, pageReq, postVars,
                   pipelineVars>>
SetTone(v) ==
    /\ form' = SetField(form, "tone", v)
    /\ UNCHANGED <<status, result, loading, error, pageReq, postVars,
                   pipelineVars>>
SetKeywords(v) ==
    /\ form' = SetField(form, "keywords", v)
    /\ UNCHANGED <<status, result, loading, error, pageReq, postVars,
                   pipelineVars>>
SetCallToAction(v) ==
    /\ form' = SetField(form, "callToAction", v)
    /\ UNCHANGED <<status, result, loading, error, pageReq, postVars,
                   pipelineVars>>
SetDurationSeconds(raw) ==
    /\ form' = SetField(form, "durationSeconds", NumberOf(raw))
    /\ UNCHANGED <<status, result, loading, error, pageReq, postVars,
                   pipelineVars>>

\* ------------------------------------------------------------------ inputs
\* The texts of up to n letters.
RECURSIVE Texts(_)
Texts(n) ==
    IF n = 0 THEN {""}
    ELSE Texts(n - 1) \cup {s \o "a" : s \in Texts(n - 1)}
TextInputs == Texts(MaxTextLen)
\* The empty text and the shortest text the endpoint takes.
BoundaryTextInputs == {s \in Texts(MinTextLen) : Len(s) \in {0, MinTextLen}}
OptionalTextInputs == {""}
KeywordInputs == {"", ",", " ", "a,a", " a ", "a, ,"}
DurationInputs ==
    {EmptyInput, JNum(MinDuration - 1, 0), JNum(MinDuration - 1, 5),
     JNum(MinDuration, 0), JNum(MinDuration, 5), JNum(120, 0),
     JNum(MaxDuration, 0), JNum(MaxDuration, 5), JNum(MaxDuration + 1, 0)}

\* What a client may put in each field of a JSON body.
TopicValues == {Undefined, JNum(5, 0)} \cup {JStr(s) : s \in TextInputs}
RequiredTextValues ==
    {Undefined} \cup
    {JStr(s) : s \in {x \in Texts(MinTextLen) : Len(x) >= MinTextLen - 1}}
OptionalTextValues == {Undefined, JNum(5, 0), JStr("")}
KeywordsValues ==
    {Undefined, JStr("a"), JArr(<<>>), JArr(<<JStr("a")>>),
     JArr(<<JStr("a"), JStr("")>>), JArr(<<JNum(5, 0)>>)}
DurationValues ==
    {Undefined, JStr("60")} \cup {NumberOf(raw) : raw \in DurationInputs}
AllBodies ==
    {Malformed} \cup
    {JObject(a, b, c, d, e, f, g) :
        a \in TopicValues, b \in RequiredTextValues, c \in RequiredTextValues,
        d \in OptionalTextValues, e \in KeywordsValues,
        f \in {Undefined, JStr("")}, g \in DurationValues}
\* What the other clients post while the page and they run side by side.
DirectBodies == {Malformed, FormBody(initialForm)}

\* ---------------------------------------------------------- specifications
\* The page and other clients, with NumReqs invocations of POST side by side.
Next ==
    \/ \E r \in Reqs : ClientPost(r, DirectBodies)
    \/ \E r \in Reqs : PostParse(r)
    \/ \E r \in Reqs : StageStart(r)
    \/ \E r \in Reqs : StageSucceed(r)
    \/ \E r \in Reqs : StageFail(r)
    \/ \E r \in Reqs : PipelineReturn(r)
    \/ \E r \in Reqs : ClientReceive(r)
    \/ \E r \in Reqs : HandleSubmit(r)
    \/ HandleResponse

Spec == Init /\ [][Next]_vars

\* One client posting every kind of body, one invocation at a time.
NextValidate ==
    \/ ClientPost(1, AllBodies)
    \/ PostParse(1)
    \/ StageStart(1)
    \/ StageSucceed(1)
    \/ StageFail(1)
    \/ PipelineReturn(1)
    \/ ClientReceive(1)

SpecValidate == Init /\ [][NextValidate]_vars

\* The page alone: the user edits the form between runs and submits it.
UserEdits ==
    /\ ~loading
    /\ \/ \E v \in TextInputs : SetTopic(v)
       \/ \E v \in BoundaryTextInputs : SetTargetAudience(v)
       \/ \E v \in BoundaryTextInputs : SetContentGoals(v)
       \/ \E v \in OptionalTextInputs : SetTone(v)
       \/ \E v \in KeywordInputs : SetKeywords(v)
       \/ \E v \in OptionalTextInputs : SetCallToAction(v)
       \/ \E raw \in DurationInputs : SetDurationSeconds(raw)

NextForm ==
    \/ UserEdits
    \/ HandleSubmit(1)
    \/ PostParse(1)
    \/ StageStart(1)
    \/ StageSucceed(1)
    \/ StageFail(1)
    \/ PipelineReturn(1)
    \/ HandleResponse

SpecForm == Init /\ [][NextForm]_vars

\* ------------------------------------------------------------------ claims
\* The timeline of a run in which all four stages succeed.
FullTimeline(r) ==
    <<[stage |-> "Script", detail |-> "start", run |-> r],
      [stage |-> "Script", detail |-> "done", run |-> r],
      [stage |-> "Prompt", detail |-> "start", run |-> r],
      [stage |-> "Prompt", detail |-> "done", run |-> r],
      [stage |-> "Render", detail |-> "start", run |-> r],
      [stage |-> "Render", detail |-> "done", run |-> r],
      [stage |-> "Publish", detail |-> "start", run |-> r],
      [stage |-> "Publish", detail |-> "done", run |-> r]>>

\* C1: the response to a run that failed is non-2xx and its body is
\* { ok: false, error, statusUpdates } with statusUpdates exactly the events
\* the run pushed into the sink, in emission order.
C1_FailureKeepsEveryEvent ==
    \A r \in Reqs :
        (rpc[r] = "responded" /\ ppc[r] = "failed") =>
            /\ ~ResponseOk(response[r])
            /\ response[r].kind = "json"
            /\ response[r].body.ok = JFalse
            /\ response[r].body.error # Undefined
            /\ response[r].body.result = Undefined
            /\ response[r].body.statusUpdates = JArr(emitted[r])

C1_Witness ==
    \E r \in Reqs :
        /\ rpc[r] = "responded"
        /\ ppc[r] = "failed"
        /\ Len(emitted[r]) >= 5
        /\ response[r].body.statusUpdates = JArr(emitted[r])

\* C2: a request body that violates a Brief constraint is answered with a
\* 4xx-class response.
C2_InvalidBodyGets4xx ==
    \A r \in Reqs :
        (/\ rpc[r] = "responded"
         /\ rbody[r].t = "object"
         /\ ~payloadSchema(rbody[r])) =>
            response[r].status \in 400..499

\* C3: a run in which all four stages succeed leaves exactly the 8 events
\* Script-start .. Publish-done in the sink, in that order, and the endpoint
\* returns that sequence as statusUpdates of the { ok: true } response.
C3_SuccessTimeline ==
    \A r \in Reqs :
        ppc[r] = "returned" =>
            /\ statusUpdates[r] = FullTimeline(r)
            /\ response[r].body.ok = JTrue
            /\ response[r].body.statusUpdates = JArr(FullTimeline(r))

C3_Witness ==
    \E r \in Reqs :
        /\ ppc[r] = "returned"
        /\ rpc[r] = "responded"
        /\ ResponseOk(response[r])
        /\ Len(response[r].body.statusUpdates.items) = 8

\* C4: when stage k is the first stage whose adapter fails, no stage after k
\* has been started, the failure names stage k, and the status sequence is the
\* first 2k-1 events of the full timeline (up to and including k's start).
C4_FailureStopsAtStage ==
    \A r \in Reqs : \A k \in 1..4 :
        (ppc[r] = "failed" /\ pstage[r] = k - 1) =>
            /\ started[r] = 1..k
            /\ response[r].body.error = JStr(FullTimeline(r)[2 * k].stage)
            /\ response[r].body.statusUpdates
                 = JArr(SubSeq(FullTimeline(r), 1, 2 * k - 1))

C4_Witness ==
    \E r \in Reqs :
        /\ ppc[r] = "failed"
        /\ pstage[r] = 3
        /\ response[r].body.error = JStr("Publish")
        /\ Len(response[r].body.statusUpdates.items) = 7

\* C5: a response carries a result if and only if ok is true, ok is true only
\* when the run completed all four stages, and a failed run's response holds
\* no result.
C5_ResultOnlyOnFullSuccess ==
    \A r \in Reqs :
        rpc[r] = "responded" =>
            /\ response[r].body.result # Undefined
                 <=> response[r].body.ok = JTrue
            /\ response[r].body.ok = JTrue =>
                 /\ ppc[r] = "returned"
                 /\ pstage[r] = 4
                 /\ response[r].body.result = PipelineResult(r, 4)
            /\ ppc[r] = "failed" => response[r].body.result = Undefined

C5_Witness ==
    \E r \in Reqs :
        /\ rpc[r] = "responded"
        /\ ppc[r] = "failed"
        /\ pstage[r] >= 2
        /\ response[r].body.ok = JFalse
        /\ response[r].body.result = Undefined

\* C6: when the endpoint answers a submitted run with a non-2xx response,
\* handleSubmit leaves the page with a non-null error, status equal to the
\* events the run produced before the failure, result null and loading false.
C6_FailureShowsErrorAndTimeline ==
    [][(/\ pageReq # 0
        /\ rpc[pageReq] = "responded"
        /\ ~ResponseOk(response[pageReq])
        /\ pageReq' = 0)
       => (/\ error' # Null
           /\ status' = emitted[pageReq]
           /\ result' = Null
           /\ loading' = FALSE)]_vars

C6_Witness ==
    /\ ~loading
    /\ pageReq = 0
    /\ error = JStr("Render")
    /\ Len(status) = 5
    /\ result = Null

\* C7: for an otherwise valid request, durationSeconds is accepted exactly
\* when it is absent or an integer from 30 to 300 inclusive.
C7_DurationBounds ==
    \A r \in Reqs :
        (/\ rpc[r] \in {"running", "responded"}
         /\ rbody[r].t = "object"
         /\ payloadSchema([rbody[r] EXCEPT !.durationSeconds = Undefined])) =>
            LET d == rbody[r].durationSeconds
            IN  (brief[r] = rbody[r]) <=>
                    \/ d = Undefined
                    \/ /\ d.t = "number"
                       /\ d.tenths = 0
                       /\ d.whole \in 30..300

C7_Witness ==
    \E r \in Reqs :
        /\ rpc[r] = "running"
        /\ rbody[r].durationSeconds = JNum(300, 0)
        /\ brief[r] = rbody[r]

\* C8: the form allows submission if and only if the endpoint's validation
\* accepts the body it builds, and no brief the form submitted is rejected.
C8_FormMatchesEndpoint ==
    /\ ~FormAllowsSubmit(form) => ~payloadSchema(FormBody(form))
    /\ \A r \in Reqs :
           (r = pageReq /\ rpc[r] \in {"running", "responded"}) =>
               /\ payloadSchema(rbody[r])
               /\ response[r] # UnhandledResponse

\* C9: under any interleaving of invocations, each invocation's statusUpdates
\* holds exactly the events of its own run, in that run's order, and its
\* response is decided by its own run.
C9_RunsAreIndependent ==
    \A r \in Reqs :
        /\ statusUpdates[r] = emitted[r]
        /\ \A i \in 1..Len(statusUpdates[r]) : statusUpdates[r][i].run = r
        /\ (rpc[r] = "responded" /\ response[r].kind = "json") =>
               /\ response[r].body.statusUpdates = JArr(emitted[r])
               /\ response[r].body.ok = JTrue <=> ppc[r] = "returned"
               /\ response[r].body.ok = JFalse <=> ppc[r] = "failed"
               /\ response[r].body.result
                    \in {Undefined, PipelineResult(r, pstage[r])}

C9_Witness ==
    \E r1, r2 \in Reqs :
        /\ r1 # r2
        /\ rpc[r1] = "running"
        /\ rpc[r2] = "running"
        /\ Len(statusUpdates[r1]) >= 3
        /\ Len(statusUpdates[r2]) >= 2
        /\ Len(statusUpdates[r1]) # Len(statusUpdates[r2])

====
